---- MODULE Spec2Model ----
(***************************************************************************)
(* swaybg (src/swaybg/main.c): the background client of sway.  The module  *)
(* models main() as a state machine (Spec), the placement arithmetic of    *)
(* the paint loop as a function of the target and image sizes (SpecPlace), *)
(* and is_valid_color as a function of its argument (SpecColor).           *)
(*                                                                         *)
(* The C type double is modelled as IEEE 754 binary64: 53 significant bits *)
(* and round-to-nearest, ties-to-even.  Exponent range plays no role for   *)
(* the magnitudes that occur, so exponents are unbounded integers.         *)
(***************************************************************************)
EXTENDS Integers, Sequences, FiniteSets, TLC

(***************************************************************************)
(* Unsigned integers of four 28-bit limbs, least significant first; they   *)
(* carry the 53-bit significands and the intermediate values of one        *)
(* floating-point operation.                                               *)
(***************************************************************************)
Base == 2^28

BigOf(n) == <<n % Base, n \div Base, 0, 0>>

BigZero == BigOf(0)

BigOne == BigOf(1)

BigCmp(x, y) ==
    IF x[4] # y[4] THEN (IF x[4] < y[4] THEN -1 ELSE 1)
    ELSE IF x[3] # y[3] THEN (IF x[3] < y[3] THEN -1 ELSE 1)
    ELSE IF x[2] # y[2] THEN (IF x[2] < y[2] THEN -1 ELSE 1)
    ELSE IF x[1] # y[1] THEN (IF x[1] < y[1] THEN -1 ELSE 1)
    ELSE 0

BigAdd(x, y) ==
    LET s1 == x[1] + y[1]
        s2 == x[2] + y[2] + (s1 \div Base)
        s3 == x[3] + y[3] + (s2 \div Base)
        s4 == x[4] + y[4] + (s3 \div Base)
    IN <<s1 % Base, s2 % Base, s3 % Base, s4 % Base>>

\* x - y for x >= y
BigSub(x, y) ==
    LET d1 == x[1] - y[1]
        b1 == IF d1 < 0 THEN 1 ELSE 0
        d2 == x[2] - y[2] - b1
        b2 == IF d2 < 0 THEN 1 ELSE 0
        d3 == x[3] - y[3] - b2
        b3 == IF d3 < 0 THEN 1 ELSE 0
        d4 == x[4] - y[4] - b3
    IN <<d1 + b1 * Base, d2 + b2 * Base, d3 + b3 * Base, d4>>

BigDbl(x) == BigAdd(x, x)

BigHalf(x) ==
    <<(x[1] \div 2) + (x[2] % 2) * (Base \div 2),
      (x[2] \div 2) + (x[3] % 2) * (Base \div 2),
      (x[3] \div 2) + (x[4] % 2) * (Base \div 2),
      x[4] \div 2>>

BigOdd(x) == x[1] % 2 = 1

\* x * 2^n for n < 28
BigShlBits(x, n) ==
    LET cut == 2^(28 - n)
        up == 2^n
    IN <<(x[1] % cut) * up,
         (x[2] % cut) * up + (x[1] \div cut),
         (x[3] % cut) * up + (x[2] \div cut),
         (x[4] % cut) * up + (x[3] \div cut)>>

RECURSIVE BigShl(_, _)
\* x * 2^n, a limb at a time and then the remaining bits
BigShl(x, n) ==
    IF n <= 0 THEN x
    ELSE IF n >= 28 THEN BigShl(<<0, x[1], x[2], x[3]>>, n - 28)
    ELSE BigShlBits(x, n)

RECURSIVE BigMul(_, _)
\* x * k for a natural number k
BigMul(x, k) ==
    IF k = 0 THEN BigZero
    ELSE LET h == BigDbl(BigMul(x, k \div 2))
         IN IF k % 2 = 1 THEN BigAdd(h, x) ELSE h

(***************************************************************************)
(* double.  [s, m, e] is the value s * m * 2^e with sign s in {-1, 0, 1}   *)
(* and 2^52 <= m < 2^53 (m = 0, e = 0 for zero).                           *)
(***************************************************************************)
MantissaBits == 53

MinMant == BigShl(BigOne, MantissaBits - 1)

MaxMant == BigShl(BigOne, MantissaBits)

FZero == [s |-> 0, m |-> BigZero, e |-> 0]

RECURSIVE FShiftUp(_, _, _)
\* m # 0 below 2^52: the exact left shift to a 53-bit significand, trying
\* steps of k bits, then k/2, ... down to one bit
FShiftUp(m, e, k) ==
    IF BigCmp(m, MinMant) >= 0 THEN <<m, e>>
    ELSE IF BigCmp(BigShl(m, k), MaxMant) < 0 THEN FShiftUp(BigShl(m, k), e - k, k)
    ELSE FShiftUp(m, e, k \div 2)

RECURSIVE FShiftDown(_, _, _, _)
\* m >= 2^53: the right shift to 53 bits, keeping the last bit shifted out
\* (half) and whether any bit before it was set (sticky)
FShiftDown(m, e, half, sticky) ==
    IF BigCmp(m, MaxMant) < 0 THEN <<m, e, half, sticky>>
    ELSE FShiftDown(BigHalf(m), e + 1, BigOdd(m), sticky \/ half)

\* round to nearest, ties to even, given the truncated significand
FRoundUp(m, e, half, sticky) ==
    LET up == half /\ (sticky \/ BigOdd(m))
        m1 == IF up THEN BigAdd(m, BigOne) ELSE m
    IN IF BigCmp(m1, MaxMant) = 0 THEN <<MinMant, e + 1>> ELSE <<m1, e>>

\* the double nearest to s * m * 2^e, for any m
FRound(s, m, e) ==
    IF s = 0 \/ BigCmp(m, BigZero) = 0 THEN FZero
    ELSE IF BigCmp(m, MinMant) < 0
         THEN LET u == FShiftUp(m, e, 32) IN [s |-> s, m |-> u[1], e |-> u[2]]
         ELSE LET d == FShiftDown(m, e, FALSE, FALSE)
                  r == FRoundUp(d[1], d[2], d[3], d[4])
              IN [s |-> s, m |-> r[1], e |-> r[2]]

Sign(n) == IF n > 0 THEN 1 ELSE IF n < 0 THEN -1 ELSE 0

Abs(n) == IF n < 0 THEN -n ELSE n

\* two-limb values (below 2^56) for the quotient loop
Lo2(x) == <<x[1], x[2]>>

Ge2(x, y) == x[2] > y[2] \/ (x[2] = y[2] /\ x[1] >= y[1])

Dbl2(x, c) == LET l == 2 * x[1] + c IN <<l % Base, 2 * x[2] + (l \div Base)>>

Sub2(x, y) ==
    LET d == x[1] - y[1]
    IN IF d < 0 THEN <<d + Base, x[2] - y[2] - 1>> ELSE <<d, x[2] - y[2]>>

RECURSIVE FQuot(_, _, _, _)
\* k more quotient bits of r / b, appended to q, for r < 2b < 2^55; the result
\* is the quotient and twice the remainder.  (The test on q[1] only makes q
\* evaluated at every step, which keeps the evaluation stack flat.)
FQuot(q, r, b, k) ==
    IF k = 0 \/ q[1] < 0 THEN <<q, r>>
    ELSE IF Ge2(r, b)
         THEN FQuot(Dbl2(q, 1), Dbl2(Sub2(r, b), 0), b, k - 1)
         ELSE FQuot(Dbl2(q, 0), Dbl2(r, 0), b, k - 1)

RECURSIVE FAlign(_, _, _)
\* a, b, e with a * 2^e / b unchanged and b <= a < 2b
FAlign(a, b, e) ==
    IF BigCmp(a, b) < 0 THEN FAlign(BigDbl(a), b, e - 1)
    ELSE IF BigCmp(a, BigDbl(b)) >= 0 THEN FAlign(a, BigDbl(b), e + 1)
    ELSE <<a, b, e>>

\* x / y in double, y # 0
FDiv(x, y) ==
    IF x.s = 0 THEN FZero
    ELSE LET al == FAlign(x.m, y.m, x.e - y.e)
             b == Lo2(al[2])
             qr == FQuot(<<0, 0>>, Lo2(al[1]), b, MantissaBits)
             q == <<qr[1][1], qr[1][2], 0, 0>>
             r == FRoundUp(q, al[3] - (MantissaBits - 1),
                           Ge2(qr[2], b), qr[2] # b)
         IN [s |-> x.s * y.s, m |-> r[1], e |-> r[2]]

\* x / 2 in double: exact, the exponent drops by one
FHalf(x) == IF x.s = 0 THEN FZero ELSE [x EXCEPT !.e = @ - 1]

\* (double) a / b for ints a >= 0 and b > 0 below 2^17: the same quotient, with
\* the 52 bits after the leading one taken 13 at a time from int remainders
RECURSIVE IntAlign(_, _, _)
IntAlign(a, b, e) ==
    IF a < b THEN IntAlign(2 * a, b, e - 1)
    ELSE IF a >= 2 * b THEN IntAlign(a, 2 * b, e + 1)
    ELSE <<a, b, e>>

FDivInt(a, b) ==
    IF a = 0 THEN FZero
    ELSE LET al == IntAlign(a, b, 0)
             d == al[2]
             r0 == al[1] - d
             c1 == (r0 * 2^13) \div d
             r1 == (r0 * 2^13) % d
             c2 == (r1 * 2^13) \div d
             r2 == (r1 * 2^13) % d
             c3 == (r2 * 2^13) \div d
             r3 == (r2 * 2^13) % d
             c4 == (r3 * 2^13) \div d
             r4 == (r3 * 2^13) % d
             q == <<c4 + c3 * 2^13 + (c2 % 4) * 2^26,
                    (c2 \div 4) + c1 * 2^11 + 2^24, 0, 0>>
             r == FRoundUp(q, al[3] - (MantissaBits - 1), 2 * r4 >= d, 2 * r4 > d)
         IN [s |-> 1, m |-> r[1], e |-> r[2]]

\* -x
FNeg(x) == [s |-> -x.s, m |-> x.m, e |-> x.e]

\* x < y, x = y, x > y as -1, 0, 1
FCmp(x, y) ==
    IF x.s # y.s THEN (IF x.s < y.s THEN -1 ELSE 1)
    ELSE IF x.s = 0 THEN 0
    ELSE IF x.e # y.e THEN (IF x.e < y.e THEN -x.s ELSE x.s)
    ELSE x.s * BigCmp(x.m, y.m)

\* x + y in double
FAdd(x, y) ==
    IF x.s = 0 THEN y
    ELSE IF y.s = 0 THEN x
    ELSE IF x.e - y.e > MantissaBits + 2 THEN x
    ELSE IF y.e - x.e > MantissaBits + 2 THEN y
    ELSE LET e0 == IF x.e < y.e THEN x.e ELSE y.e
             xm == BigShl(x.m, x.e - e0)
             ym == BigShl(y.m, y.e - e0)
             c == BigCmp(xm, ym)
         IN IF x.s = y.s THEN FRound(x.s, BigAdd(xm, ym), e0)
            ELSE IF c = 0 THEN FZero
            ELSE IF c > 0 THEN FRound(x.s, BigSub(xm, ym), e0)
            ELSE FRound(y.s, BigSub(ym, xm), e0)

FSub(x, y) == FAdd(x, FNeg(y))

\* x * n in double, for an int n converted to double
FMulInt(x, n) ==
    IF x.s = 0 \/ n = 0 THEN FZero ELSE FRound(x.s * Sign(n), BigMul(x.m, Abs(n)), x.e)


(***************************************************************************)
(* Bounds of the model.                                                    *)
(***************************************************************************)
\* outputs known to the registry
MaxOutputs == 2

\* width and height of an output, in the runs of main()
MaxOutputSide == 1

\* width and height of the image, in the runs of main()
MaxImageSide == 2

\* events wl_display_dispatch serves before the connection closes
MaxEvents == 1

\* length of the color argument handed to is_valid_color
MaxLen == 8

\* window and image sizes of the paint step taken alone: a wide range of
\* nearly square sizes, and a narrow, tall one
MaxWindowSide == 9

MaxPictureSide == 7

MaxStripWidth == 2

MaxStripHeight == 15

MaxStripPictureHeight == 11

(***************************************************************************)
(* Strings are sequences of one-character strings.                         *)
(***************************************************************************)
Digits == <<"0", "1", "2", "3", "4", "5", "6", "7", "8", "9">>

IsDigit(c) == \E d \in 1..10 : Digits[d] = c

DigitValue(c) == (CHOOSE d \in 1..10 : Digits[d] = c) - 1

\* isxdigit
isxdigit(c) ==
    \/ IsDigit(c)
    \/ c \in {"a", "b", "c", "d", "e", "f"}
    \/ c \in {"A", "B", "C", "D", "E", "F"}

RECURSIVE AtoiDigits(_, _, _)
AtoiDigits(str, k, acc) ==
    IF k > Len(str) \/ ~IsDigit(str[k]) THEN acc
    ELSE AtoiDigits(str, k + 1, acc * 10 + DigitValue(str[k]))

RECURSIVE AtoiSkip(_, _)
AtoiSkip(str, k) == IF k <= Len(str) /\ str[k] = " " THEN AtoiSkip(str, k + 1) ELSE k

\* atoi: leading blanks, an optional sign, then digits up to the first other
\* character; 0 when there is no digit
atoi(str) ==
    LET k == AtoiSkip(str, 1)
    IN IF k <= Len(str) /\ str[k] = "-" THEN -AtoiDigits(str, k + 1, 0)
       ELSE IF k <= Len(str) /\ str[k] = "+" THEN AtoiDigits(str, k + 1, 0)
       ELSE AtoiDigits(str, k, 0)

is_valid_color_no_length_check(color) ==
    /\ Len(color) > 0
    /\ color[1] = "#"
    /\ \A k \in 2..Len(color) : isxdigit(color[k])

\* is_valid_color: color[0] of the C string is color[1] here
is_valid_color(color) ==
    LET len == Len(color)
    IN IF len # 7 \/ color[1] # "#" THEN FALSE
       ELSE \A k \in 2..len : isxdigit(color[k])

(***************************************************************************)
(* The transform and source the paint loop sets on the window's cairo      *)
(* context, from wwidth, wheight (window size times scale) and the image's *)
(* width and height.  kind is the source: the image surface or, for tile,  *)
(* a repeating pattern over it.                                            *)
(***************************************************************************)
FOne == FDivInt(1, 1)

Source(kind, sx, sy, ox, oy) ==
    [kind |-> kind, scale_x |-> sx, scale_y |-> sy, offset_x |-> ox, offset_y |-> oy]

NoSource == Source("none", FOne, FOne, FZero, FZero)

ColorSource == Source("color", FOne, FOne, FZero, FZero)

window_ratio(wwidth, wheight) == FDivInt(wwidth, wheight)

bg_ratio(width, height) == FDivInt(width, height)

\* (double) wwidth/2 / scale - width/2, and the same for the heights
CenterOffset(wlen, scale, len) ==
    FSub(FDiv(FHalf(FDivInt(wlen, 1)), scale), FHalf(FDivInt(len, 1)))

PlaceStretch(wwidth, wheight, width, height) ==
    Source("surface", FDivInt(wwidth, width), FDivInt(wheight, height), FZero, FZero)

PlaceFillFlipped(wwidth, wheight, width, height) ==
    IF FCmp(window_ratio(wwidth, wheight), bg_ratio(width, height)) < 0
    THEN LET scale == FDivInt(wwidth, width)
         IN Source("surface", scale, scale, FZero, CenterOffset(wheight, scale, height))
    ELSE LET scale == FDivInt(wheight, height)
         IN Source("surface", scale, scale, CenterOffset(wwidth, scale, width), FZero)

PlaceFillTieFirst(wwidth, wheight, width, height) ==
    IF FCmp(window_ratio(wwidth, wheight), bg_ratio(width, height)) >= 0
    THEN LET scale == FDivInt(wwidth, width)
         IN Source("surface", scale, scale, FZero, CenterOffset(wheight, scale, height))
    ELSE LET scale == FDivInt(wheight, height)
         IN Source("surface", scale, scale, CenterOffset(wwidth, scale, width), FZero)

PlaceFill(wwidth, wheight, width, height) ==
    IF FCmp(window_ratio(wwidth, wheight), bg_ratio(width, height)) > 0
    THEN LET scale == FDivInt(wwidth, width)
         IN Source("surface", scale, scale, FZero, CenterOffset(wheight, scale, height))
    ELSE LET scale == FDivInt(wheight, height)
         IN Source("surface", scale, scale, CenterOffset(wwidth, scale, width), FZero)

PlaceFitFlipped(wwidth, wheight, width, height) ==
    IF FCmp(window_ratio(wwidth, wheight), bg_ratio(width, height)) < 0
    THEN LET scale == FDivInt(wheight, height)
         IN Source("surface", scale, scale, CenterOffset(wwidth, scale, width), FZero)
    ELSE LET scale == FDivInt(wwidth, width)
         IN Source("surface", scale, scale, FZero, CenterOffset(wheight, scale, height))

PlaceFit(wwidth, wheight, width, height) ==
    IF FCmp(window_ratio(wwidth, wheight), bg_ratio(width, height)) > 0
    THEN LET scale == FDivInt(wheight, height)
         IN Source("surface", scale, scale, CenterOffset(wwidth, scale, width), FZero)
    ELSE LET scale == FDivInt(wwidth, width)
         IN Source("surface", scale, scale, FZero, CenterOffset(wheight, scale, height))

PlaceCenter(wwidth, wheight, width, height) ==
    Source("surface", FOne, FOne,
           FSub(FHalf(FDivInt(wwidth, 1)), FHalf(FDivInt(width, 1))),
           FSub(FHalf(FDivInt(wheight, 1)), FHalf(FDivInt(height, 1))))

PlaceTile == Source("pattern", FOne, FOne, FZero, FZero)

Placement(mode, wwidth, wheight, width, height) ==
    CASE mode = "stretch" -> PlaceStretch(wwidth, wheight, width, height)
      [] mode = "fill" -> PlaceFill(wwidth, wheight, width, height)
      [] mode = "fit" -> PlaceFit(wwidth, wheight, width, height)
      [] mode = "center" -> PlaceCenter(wwidth, wheight, width, height)
      [] mode = "tile" -> PlaceTile

(***************************************************************************)
(* The state of the process.                                               *)
(***************************************************************************)
VARIABLES
    pc,              \* the place main() or sway_terminate() has reached
    argc,            \* argument count, the program name included
    argv,            \* argv[1], argv[2] as strings; argv[3] as one word
    registry,        \* the registry: desktop_shell, outputs->length, teardowns
    desired_output,  \* atoi(argv[1])
    output,          \* the output_state read from registry->outputs
    window,          \* the window of window_setup, or Null
    surfaces,        \* the list: its items and whether it was freed
    i,               \* the loop index i of main() and of sway_terminate()
    color_ok,        \* what is_valid_color returned, once called
    image,           \* the image surface: status, size, reference count
    load_attempts,   \* image decodes attempted, and on which string
    pattern_refs,    \* references to the tile pattern
    scaling_mode,    \* the enum scaling_mode, once chosen
    prerendered,     \* what window_prerender(window) && window->cairo gave
    source,          \* transform and source set on the window's cairo context
    paints,          \* calls of cairo_paint
    commits,         \* calls of window_render
    events,          \* events served by wl_display_dispatch
    dispatch_result, \* what wl_display_dispatch returned last
    exit_code,       \* the argument of sway_terminate, then the exit status
    log              \* teardown steps and exit, in the order they happened

vars ==
    <<pc, argc, argv, registry, desired_output, output, window, surfaces, i,
      color_ok, image, load_attempts, pattern_refs, scaling_mode, prerendered,
      source, paints, commits, events, dispatch_result, exit_code, log>>

\* a null pointer
Null == [null |-> TRUE]

\* no scaling mode chosen yet
Unset == "unset"

\* the value of an int or bool that was not yet returned or set
None == 0 - 1

Yes == 1

No == 0

EXIT_FAILURE == 1

\* the status of a process killed by SIGSEGV, as a shell reports it
SegvStatus == 139

Scales == {1, 2}

OutputStates == [width : 1..MaxOutputSide, height : 1..MaxOutputSide, scale : Scales]

ImageSizes == (1..MaxImageSide) \X (1..MaxImageSide)

ScalingModes == {"stretch", "fill", "fit", "center", "tile"}

ModeWords == ScalingModes \cup {"solid_color", "zoom"}

OutputArgs == {<<"0">>, <<"1">>, <<"-", "1">>, <<"x">>, <<>>}

ValidColor == <<"#", "a", "1", "B", "2", "c", "3">>

BadColor == <<"#", "a", "1", "B", "2", "z", "z">>

ImagePath == <<"b", "g", ".", "p", "n", "g">>

SourceArgs == {ValidColor, BadColor, ImagePath}

NoImage == [status |-> "none", width |-> 0, height |-> 0, refs |-> 0]

\* what every run starts from, whatever its arguments: after init_log,
\* create_list and registry_poll
Fresh ==
    /\ desired_output = 0
    /\ output = Null
    /\ window = Null
    /\ surfaces = [items |-> <<>>, freed |-> FALSE]
    /\ i = 0
    /\ color_ok = None
    /\ image = NoImage
    /\ load_attempts = <<>>
    /\ pattern_refs = 0
    /\ scaling_mode = Unset
    /\ prerendered = None
    /\ source = NoSource
    /\ paints = 0
    /\ commits = 0
    /\ events = 0
    /\ dispatch_result = 0
    /\ exit_code = None
    /\ log = <<>>

Init ==
    /\ pc = "start"
    /\ argc \in {3, 4, 5}
    /\ argv \in [a1 : OutputArgs, a2 : SourceArgs, a3 : ModeWords]
    /\ registry \in [desktop_shell : BOOLEAN, outputs_length : 0..MaxOutputs,
                     teardowns : {0}]
    /\ Fresh

\* sway_abort(message): the message goes to stderr, then sway_terminate(EXIT_FAILURE)
sway_abort ==
    /\ pc' = "terminate"
    /\ exit_code' = EXIT_FAILURE
    /\ i' = 0

(***************************************************************************)
(* main()                                                                  *)
(***************************************************************************)
CheckArgc ==
    /\ pc = "start"
    /\ IF argc # 4 THEN sway_abort
       ELSE pc' = "shell" /\ UNCHANGED <<exit_code, i>>
    /\ UNCHANGED <<argc, argv, registry, desired_output, output, window, surfaces,
                   color_ok, image, load_attempts, pattern_refs, scaling_mode,
                   prerendered, source, paints, commits, events, dispatch_result, log>>

CheckShell ==
    /\ pc = "shell"
    /\ IF ~registry.desktop_shell THEN sway_abort
       ELSE pc' = "output" /\ UNCHANGED <<exit_code, i>>
    /\ UNCHANGED <<argc, argv, registry, desired_output, output, window, surfaces,
                   color_ok, image, load_attempts, pattern_refs, scaling_mode,
                   prerendered, source, paints, commits, events, dispatch_result, log>>

InRange(index) == 0 <= index /\ index < registry.outputs_length

\* registry->outputs->items[desired_output], read without a check against
\* outputs->length.  In range it is one of the registry's outputs, whose
\* contents the compositor decides.  Out of range the read is undefined: the
\* process is killed, or goes on with whatever the memory there holds.
SelectOutput ==
    /\ pc = "output"
    /\ desired_output' = atoi(argv.a1)
    /\ \/ /\ \E o \in OutputStates : output' = o
          /\ pc' = "window"
          /\ UNCHANGED exit_code
       \/ /\ ~InRange(desired_output')
          /\ output' = Null
          /\ pc' = "killed"
          /\ exit_code' = SegvStatus
    /\ UNCHANGED <<argc, argv, registry, window, surfaces, i, color_ok, image,
                   load_attempts, pattern_refs, scaling_mode, prerendered, source,
                   paints, commits, events, dispatch_result, log>>

\* window_setup, desktop_shell_set_background, window_make_shell, list_add
SetupWindow ==
    /\ pc = "window"
    /\ \/ /\ window' = [width |-> output.width, height |-> output.height,
                        scale |-> output.scale, teardowns |-> 0]
          /\ surfaces' = [surfaces EXCEPT !.items = Append(@, "window")]
          /\ pc' = "source"
          /\ UNCHANGED <<exit_code, i>>
       \/ /\ window' = Null
          /\ sway_abort
          /\ UNCHANGED surfaces
    /\ UNCHANGED <<argc, argv, registry, desired_output, output, color_ok, image,
                   load_attempts, pattern_refs, scaling_mode, prerendered, source,
                   paints, commits, events, dispatch_result, log>>

SolidColorWithoutCommit ==
    /\ pc = "source"
    /\ argv.a3 = "solid_color"
    /\ color_ok' = (IF is_valid_color(argv.a2) THEN Yes ELSE No)
    /\ IF color_ok' = Yes
       THEN /\ source' = ColorSource
            /\ paints' = paints + 1
            /\ pc' = "dispatch"
       ELSE /\ pc' = "load"
            /\ UNCHANGED <<source, paints>>
    /\ UNCHANGED <<argc, argv, registry, desired_output, output, window, surfaces, i,
                   image, load_attempts, pattern_refs, scaling_mode, prerendered,
                   commits, events, dispatch_result, exit_code, log>>

\* strcmp(argv[3], "solid_color") == 0 && is_valid_color(argv[2]): the second
\* operand is evaluated only when the first holds
SolidColor ==
    /\ pc = "source"
    /\ argv.a3 = "solid_color"
    /\ color_ok' = (IF is_valid_color(argv.a2) THEN Yes ELSE No)
    /\ IF color_ok' = Yes
       THEN /\ source' = ColorSource
            /\ paints' = paints + 1
            /\ commits' = commits + 1
            /\ pc' = "dispatch"
       ELSE /\ pc' = "load"
            /\ UNCHANGED <<source, paints, commits>>
    /\ UNCHANGED <<argc, argv, registry, desired_output, output, window, surfaces, i,
                   image, load_attempts, pattern_refs, scaling_mode, prerendered,
                   events, dispatch_result, exit_code, log>>

NotSolidColor ==
    /\ pc = "source"
    /\ argv.a3 # "solid_color"
    /\ pc' = "load"
    /\ UNCHANGED <<argc, argv, registry, desired_output, output, window, surfaces, i,
                   color_ok, image, load_attempts, pattern_refs, scaling_mode,
                   prerendered, source, paints, commits, events, dispatch_result,
                   exit_code, log>>

\* gdk_pixbuf_new_from_file or cairo_image_surface_create_from_png on argv[2],
\* then the checks of the result; whether the file decodes is up to the file
\* system
LoadImage ==
    /\ pc = "load"
    /\ load_attempts' = Append(load_attempts, argv.a2)
    /\ \/ /\ \E size \in ImageSizes :
                image' = [status |-> "loaded", width |-> size[1],
                          height |-> size[2], refs |-> 1]
          /\ pc' = "mode"
          /\ UNCHANGED <<exit_code, i>>
       \/ /\ image' \in {[NoImage EXCEPT !.status = "null"],
                         [NoImage EXCEPT !.status = "error", !.refs = 1]}
          /\ sway_abort
    /\ UNCHANGED <<argc, argv, registry, desired_output, output, window, surfaces,
                   color_ok, pattern_refs, scaling_mode, prerendered, source, paints,
                   commits, events, dispatch_result, log>>

ParseModeAnything(word) == IF word \in ScalingModes THEN word ELSE "stretch"

\* the chain of strcmp on argv[3]; Unset stands for its last else
ParseMode(word) == IF word \in ScalingModes THEN word ELSE Unset

ChooseMode ==
    /\ pc = "mode"
    /\ scaling_mode' = ParseMode(argv.a3)
    /\ IF scaling_mode' = Unset THEN sway_abort
       ELSE pc' = "paint" /\ i' = 0 /\ UNCHANGED exit_code
    /\ UNCHANGED <<argc, argv, registry, desired_output, output, window, surfaces,
                   color_ok, image, load_attempts, pattern_refs, prerendered, source,
                   paints, commits, events, dispatch_result, log>>

wwidth == window.width * window.scale

wheight == window.height * window.scale

\* one pass of the loop over surfaces: window_prerender, the switch on
\* scaling_mode, cairo_paint, window_render.  Counted are the references main()
\* itself takes: cairo_pattern_create_for_surface makes a pattern (one
\* reference, main's) that holds one reference to the image, and main() never
\* calls cairo_pattern_destroy.  What the cairo context holds on to inside
\* cairo_set_source and cairo_set_source_surface is the library's to release.
PaintWindow ==
    /\ pc = "paint"
    /\ i < Len(surfaces.items)
    /\ \E ready \in BOOLEAN :
          /\ prerendered' = (IF ready THEN Yes ELSE No)
          /\ IF ready
             THEN /\ source' = Placement(scaling_mode, wwidth, wheight,
                                         image.width, image.height)
                  /\ IF scaling_mode = "tile"
                     THEN /\ pattern_refs' = pattern_refs + 1
                          /\ image' = [image EXCEPT !.refs = @ + 1]
                     ELSE UNCHANGED <<pattern_refs, image>>
                  /\ paints' = paints + 1
                  /\ commits' = commits + 1
             ELSE UNCHANGED <<source, pattern_refs, image, paints, commits>>
    /\ i' = i + 1
    /\ UNCHANGED <<pc, argc, argv, registry, desired_output, output, window,
                   surfaces, color_ok, load_attempts, scaling_mode, events,
                   dispatch_result, exit_code, log>>

\* the loop ends; cairo_surface_destroy(image) drops main's reference
DestroyImage ==
    /\ pc = "paint"
    /\ i >= Len(surfaces.items)
    /\ image' = [image EXCEPT !.refs = @ - 1,
                              !.status = IF image.refs = 1 THEN "freed" ELSE @]
    /\ pc' = "dispatch"
    /\ UNCHANGED <<argc, argv, registry, desired_output, output, window, surfaces, i,
                   color_ok, load_attempts, pattern_refs, scaling_mode, prerendered,
                   source, paints, commits, events, dispatch_result, exit_code, log>>

\* while (wl_display_dispatch(registry->display) != -1);
Dispatch ==
    /\ pc = "dispatch"
    /\ \/ /\ events < MaxEvents
          /\ events' = events + 1
          /\ dispatch_result' = 0
          /\ UNCHANGED <<pc, i>>
       \/ /\ dispatch_result' = -1
          /\ pc' = "teardown"
          /\ i' = 0
          /\ UNCHANGED events
    /\ UNCHANGED <<argc, argv, registry, desired_output, output, window, surfaces,
                   color_ok, image, load_attempts, pattern_refs, scaling_mode,
                   prerendered, source, paints, commits, exit_code, log>>

\* window_teardown(surfaces->items[i])
window_teardown ==
    /\ window' = [window EXCEPT !.teardowns = @ + 1]
    /\ log' = Append(log, "window_teardown")
    /\ i' = i + 1

TeardownWindow ==
    /\ pc = "teardown"
    /\ i < Len(surfaces.items)
    /\ window_teardown
    /\ UNCHANGED <<pc, argc, argv, registry, desired_output, output, surfaces,
                   color_ok, image, load_attempts, pattern_refs, scaling_mode,
                   prerendered, source, paints, commits, events, dispatch_result,
                   exit_code>>

list_free ==
    /\ surfaces' = [surfaces EXCEPT !.freed = TRUE]
    /\ log' = Append(log, "list_free")

registry_teardown ==
    /\ registry' = [registry EXCEPT !.teardowns = @ + 1]
    /\ log' = Append(log, "registry_teardown")

FreeList ==
    /\ pc = "teardown"
    /\ i >= Len(surfaces.items)
    /\ list_free
    /\ pc' = "registry"
    /\ UNCHANGED <<argc, argv, registry, desired_output, output, window, i, color_ok,
                   image, load_attempts, pattern_refs, scaling_mode, prerendered,
                   source, paints, commits, events, dispatch_result, exit_code>>

TeardownRegistry ==
    /\ pc = "registry"
    /\ registry_teardown
    /\ pc' = "return"
    /\ UNCHANGED <<argc, argv, desired_output, output, window, surfaces, i, color_ok,
                   image, load_attempts, pattern_refs, scaling_mode, prerendered,
                   source, paints, commits, events, dispatch_result, exit_code>>

\* return 0;
Return ==
    /\ pc = "return"
    /\ exit_code' = 0
    /\ log' = Append(log, "exit")
    /\ pc' = "exited"
    /\ UNCHANGED <<argc, argv, registry, desired_output, output, window, surfaces, i,
                   color_ok, image, load_attempts, pattern_refs, scaling_mode,
                   prerendered, source, paints, commits, events, dispatch_result>>

(***************************************************************************)
(* sway_terminate(exit_code)                                               *)
(***************************************************************************)
TerminateWindow ==
    /\ pc = "terminate"
    /\ i < Len(surfaces.items)
    /\ window_teardown
    /\ UNCHANGED <<pc, argc, argv, registry, desired_output, output, surfaces,
                   color_ok, image, load_attempts, pattern_refs, scaling_mode,
                   prerendered, source, paints, commits, events, dispatch_result,
                   exit_code>>

TerminateListFirst ==
    /\ pc = "terminate"
    /\ list_free
    /\ pc' = "terminate_registry"
    /\ UNCHANGED <<argc, argv, registry, desired_output, output, window, i, color_ok,
                   image, load_attempts, pattern_refs, scaling_mode, prerendered,
                   source, paints, commits, events, dispatch_result, exit_code>>

TerminateList ==
    /\ pc = "terminate"
    /\ i >= Len(surfaces.items)
    /\ list_free
    /\ pc' = "terminate_registry"
    /\ UNCHANGED <<argc, argv, registry, desired_output, output, window, i, color_ok,
                   image, load_attempts, pattern_refs, scaling_mode, prerendered,
                   source, paints, commits, events, dispatch_result, exit_code>>

TerminateRegistry ==
    /\ pc = "terminate_registry"
    /\ registry_teardown
    /\ pc' = "terminate_exit"
    /\ UNCHANGED <<argc, argv, desired_output, output, window, surfaces, i, color_ok,
                   image, load_attempts, pattern_refs, scaling_mode, prerendered,
                   source, paints, commits, events, dispatch_result, exit_code>>

\* exit(exit_code);
Exit ==
    /\ pc = "terminate_exit"
    /\ log' = Append(log, "exit")
    /\ pc' = "exited"
    /\ UNCHANGED <<argc, argv, registry, desired_output, output, window, surfaces, i,
                   color_ok, image, load_attempts, pattern_refs, scaling_mode,
                   prerendered, source, paints, commits, events, dispatch_result,
                   exit_code>>

Next ==
    \/ CheckArgc
    \/ CheckShell
    \/ SelectOutput
    \/ SetupWindow
    \/ SolidColor
    \/ NotSolidColor
    \/ LoadImage
    \/ ChooseMode
    \/ PaintWindow
    \/ DestroyImage
    \/ Dispatch
    \/ TeardownWindow
    \/ FreeList
    \/ TeardownRegistry
    \/ Return
    \/ TerminateWindow
    \/ TerminateList
    \/ TerminateRegistry
    \/ Exit

Spec == Init /\ [][Next]_vars

\* the process is never suspended for good anywhere but in wl_display_dispatch
Running == Next /\ pc # "dispatch"

FairSpec == Spec /\ WF_vars(Running)

(***************************************************************************)
(* The paint step on its own, for windows and images of more sizes: main() *)
(* has reached the paint loop with one window in surfaces.                 *)
(***************************************************************************)
PaintSizes ==
    ((1..MaxWindowSide) \X (1..MaxWindowSide)
        \X (1..MaxPictureSide) \X (1..MaxPictureSide))
    \cup ((1..MaxStripWidth) \X (1..MaxStripHeight)
        \X (1..MaxStripWidth) \X (1..MaxStripPictureHeight))

InitPlace ==
    /\ pc = "paint"
    /\ argc = 4
    /\ scaling_mode \in ScalingModes
    /\ argv = [a1 |-> <<"0">>, a2 |-> ImagePath, a3 |-> scaling_mode]
    /\ registry = [desktop_shell |-> TRUE, outputs_length |-> 1, teardowns |-> 0]
    /\ desired_output = 0
    /\ \E size \in PaintSizes, scale \in Scales :
          /\ output = [width |-> size[1], height |-> size[2], scale |-> scale]
          /\ image = [status |-> "loaded", width |-> size[3], height |-> size[4],
                      refs |-> 1]
    /\ window = [width |-> output.width, height |-> output.height,
                 scale |-> output.scale, teardowns |-> 0]
    /\ surfaces = [items |-> <<"window">>, freed |-> FALSE]
    /\ i = 0
    /\ color_ok = None
    /\ load_attempts = <<ImagePath>>
    /\ pattern_refs = 0
    /\ prerendered = None
    /\ source = NoSource
    /\ paints = 0
    /\ commits = 0
    /\ events = 0
    /\ dispatch_result = 0
    /\ exit_code = None
    /\ log = <<>>

NextPlace == PaintWindow \/ DestroyImage

SpecPlace == InitPlace /\ [][NextPlace]_vars

(***************************************************************************)
(* The solid_color test on its own, for any color argument: main() has set *)
(* up its window and reached the test.                                     *)
(***************************************************************************)
Chars == {"#", "3", "c", "z"}

ColorStrings == UNION {[1..n -> Chars] : n \in 0..MaxLen}

InitColor ==
    /\ pc = "source"
    /\ argc = 4
    /\ argv \in [a1 : {<<"0">>}, a2 : ColorStrings, a3 : {"solid_color"}]
    /\ registry = [desktop_shell |-> TRUE, outputs_length |-> 1, teardowns |-> 0]
    /\ desired_output = 0
    /\ output = [width |-> 1, height |-> 1, scale |-> 1]
    /\ window = [width |-> 1, height |-> 1, scale |-> 1, teardowns |-> 0]
    /\ surfaces = [items |-> <<"window">>, freed |-> FALSE]
    /\ i = 0
    /\ color_ok = None
    /\ image = NoImage
    /\ load_attempts = <<>>
    /\ pattern_refs = 0
    /\ scaling_mode = Unset
    /\ prerendered = None
    /\ source = NoSource
    /\ paints = 0
    /\ commits = 0
    /\ events = 0
    /\ dispatch_result = 0
    /\ exit_code = None
    /\ log = <<>>

NextColor == SolidColor

SpecColor == InitColor /\ [][NextColor]_vars

(***************************************************************************)
(* Properties of the placement (SpecPlace).                                *)
(***************************************************************************)
\* the window was painted with the image under the given scaling mode
Painted(mode) == scaling_mode = mode /\ prerendered = Yes /\ source.kind # "none"

\* scale * len as a double, compared with (double) wlen: -1, 0, 1
ProductCmp(scale, len, wlen) == FCmp(FMulInt(scale, len), FDivInt(wlen, 1))

\* |scale * len - wlen| <= wlen * 2^-51 in exact arithmetic: scale is
\* m * 2^e with e < 0, and both sides are multiplied by 2^-e
WithinRounding(scale, len, wlen) ==
    LET product == BigMul(scale.m, len)
        target == BigShl(BigOf(wlen), -scale.e)
        diff == IF BigCmp(product, target) >= 0 THEN BigSub(product, target)
                ELSE BigSub(target, product)
        k == -scale.e - (MantissaBits - 2)
    IN /\ scale.s = 1
       /\ scale.e < 0
       /\ IF k >= 0 THEN BigCmp(diff, BigShl(BigOf(wlen), k)) <= 0
          ELSE BigCmp(BigShl(diff, -k), BigOf(wlen)) <= 0

\* scale * len >= wlen in exact arithmetic
ExactAtLeast(scale, len, wlen) ==
    scale.e < 0 /\ BigCmp(BigMul(scale.m, len), BigShl(BigOf(wlen), -scale.e)) >= 0

\* scale * len <= wlen in exact arithmetic
ExactAtMost(scale, len, wlen) ==
    scale.e < 0 /\ BigCmp(BigMul(scale.m, len), BigShl(BigOf(wlen), -scale.e)) <= 0

\* C1 as stated: in fill mode the one scale satisfies scale*image_w >= target_w
\* and scale*image_h >= target_h, with equality on at least one axis.  The
\* products are taken the way the program would take them, in double.
C1_FillCoversExactly ==
    Painted("fill") =>
        /\ source.scale_x = source.scale_y
        /\ ProductCmp(source.scale_x, image.width, wwidth) >= 0
        /\ ProductCmp(source.scale_x, image.height, wheight) >= 0
        /\ \/ ProductCmp(source.scale_x, image.width, wwidth) = 0
           \/ ProductCmp(source.scale_x, image.height, wheight) = 0

\* C1 as amended: in fill mode the one scale satisfies scale*image_w >= target_w
\* and scale*image_h >= target_h up to the rounding of the scale to a double (a
\* relative error of at most 2^-51), with equality up to that rounding on at
\* least one axis.
C1_FillCoversUpToRounding ==
    Painted("fill") =>
        /\ source.scale_x = source.scale_y
        /\ \/ ExactAtLeast(source.scale_x, image.width, wwidth)
           \/ WithinRounding(source.scale_x, image.width, wwidth)
        /\ \/ ExactAtLeast(source.scale_x, image.height, wheight)
           \/ WithinRounding(source.scale_x, image.height, wheight)
        /\ \/ WithinRounding(source.scale_x, image.width, wwidth)
           \/ WithinRounding(source.scale_x, image.height, wheight)

\* a fill that crops: the window is wider than the image, the scale is inexact
C1_Witness ==
    /\ Painted("fill")
    /\ wwidth * image.height > wheight * image.width
    /\ ~ExactAtLeast(source.scale_x, image.width, wwidth)
    /\ ~WithinRounding(source.scale_x, image.height, wheight)

\* C2 as stated: in fit mode the one scale satisfies scale*image_w <= target_w
\* and scale*image_h <= target_h, with equality on at least one axis (products
\* in double).
C2_FitInsideExactly ==
    Painted("fit") =>
        /\ source.scale_x = source.scale_y
        /\ ProductCmp(source.scale_x, image.width, wwidth) <= 0
        /\ ProductCmp(source.scale_x, image.height, wheight) <= 0
        /\ \/ ProductCmp(source.scale_x, image.width, wwidth) = 0
           \/ ProductCmp(source.scale_x, image.height, wheight) = 0

\* C2 as amended: in fit mode the one scale satisfies scale*image_w <= target_w
\* and scale*image_h <= target_h up to the rounding of the scale to a double (a
\* relative error of at most 2^-51), with equality up to that rounding on at
\* least one axis.
C2_FitInsideUpToRounding ==
    Painted("fit") =>
        /\ source.scale_x = source.scale_y
        /\ \/ ExactAtMost(source.scale_x, image.width, wwidth)
           \/ WithinRounding(source.scale_x, image.width, wwidth)
        /\ \/ ExactAtMost(source.scale_x, image.height, wheight)
           \/ WithinRounding(source.scale_x, image.height, wheight)
        /\ \/ WithinRounding(source.scale_x, image.width, wwidth)
           \/ WithinRounding(source.scale_x, image.height, wheight)

\* a fit that leaves borders at the sides, with an inexact scale
C2_Witness ==
    /\ Painted("fit")
    /\ wwidth * image.height > wheight * image.width
    /\ ~ExactAtMost(source.scale_x, image.height, wheight)
    /\ ~WithinRounding(source.scale_x, image.width, wwidth)

RatioCmp == FCmp(window_ratio(wwidth, wheight), bg_ratio(image.width, image.height))

WidthDriven == FDivInt(wwidth, image.width)

HeightDriven == FDivInt(wheight, image.height)

\* C9 as stated: for fill and for fit, when target_ratio equals image_ratio the
\* else branch is taken, the scale applied is target_h/image_h and the vertical
\* offset is 0.
C9_TieIsHeightDriven ==
    (Painted("fill") \/ Painted("fit")) /\ RatioCmp = 0 =>
        /\ source.scale_x = HeightDriven
        /\ source.scale_y = HeightDriven
        /\ source.offset_y = FZero

\* C9 as amended: for fill and for fit the first branch is taken exactly when
\* target_ratio > image_ratio.  With equal ratios the else branch is taken: in
\* fill the scale is target_h/image_h, the vertical offset is 0 and the
\* horizontal one is target_w/2/scale - image_w/2; in fit the scale is
\* target_w/image_w (the same double as target_h/image_h when
\* target_w*image_h = target_h*image_w), the horizontal offset is 0 and the
\* vertical one is target_h/2/scale - image_h/2 as computed in double.
C9_TieTakesElseBranch ==
    /\ Painted("fill") =>
          IF RatioCmp > 0
          THEN source = Source("surface", WidthDriven, WidthDriven, FZero,
                               CenterOffset(wheight, WidthDriven, image.height))
          ELSE source = Source("surface", HeightDriven, HeightDriven,
                               CenterOffset(wwidth, HeightDriven, image.width), FZero)
    /\ Painted("fit") =>
          IF RatioCmp > 0
          THEN source = Source("surface", HeightDriven, HeightDriven,
                               CenterOffset(wwidth, HeightDriven, image.width), FZero)
          ELSE /\ source = Source("surface", WidthDriven, WidthDriven, FZero,
                                  CenterOffset(wheight, WidthDriven, image.height))
               /\ wwidth * image.height = wheight * image.width
                     => source.scale_x = HeightDriven
    /\ RatioCmp = 0 <=> wwidth * image.height = wheight * image.width

\* a fit with equal ratios whose vertical offset does not come out as 0
C9_Witness ==
    /\ Painted("fit")
    /\ RatioCmp = 0
    /\ source.scale_x = HeightDriven
    /\ source.offset_x = FZero
    /\ source.offset_y # FZero

(***************************************************************************)
(* Properties of is_valid_color (SpecColor).                               *)
(***************************************************************************)
HexChars ==
    {"0", "1", "2", "3", "4", "5", "6", "7", "8", "9",
     "a", "b", "c", "d", "e", "f", "A", "B", "C", "D", "E", "F"}

WellFormedColor(color) ==
    /\ Len(color) = 7
    /\ color[1] = "#"
    /\ \A k \in 2..7 : color[k] \in HexChars

\* C3: is_valid_color returns true exactly for the strings of 7 characters
\* that start with '#' and go on with 6 hexadecimal digits.
C3_ValidIffSevenCharHex ==
    color_ok # None => (color_ok = Yes <=> WellFormedColor(argv.a2))

\* a color was accepted
C3_Witness == color_ok = Yes /\ WellFormedColor(argv.a2) /\ paints = 1

(***************************************************************************)
(* Properties of the runs of main() (Spec, FairSpec).                      *)
(***************************************************************************)
\* the event-dispatch loop was entered
EnteredLoop ==
    \/ pc \in {"dispatch", "teardown", "registry", "return"}
    \/ pc = "exited" /\ exit_code = 0

Terminated == pc \in {"exited", "killed"}

Unrecognized == argv.a3 \notin ScalingModes \cup {"solid_color"}

C4_NoPaintNoZeroStatus ==
    Unrecognized =>
        /\ paints = 0
        /\ commits = 0
        /\ ~EnteredLoop
        /\ Terminated => exit_code \notin {0, None}

\* C4: a run whose third argument is no known mode terminates with a non-zero
\* status, and no paint and no commit has happened at any point of it,
\* whatever the image load gave.
C4_UnknownModeAborts ==
    /\ []C4_NoPaintNoZeroStatus
    /\ Unrecognized ~> Terminated

\* the image was decoded, and the run ended on the unknown mode
C4_Witness ==
    /\ Unrecognized
    /\ argc = 4
    /\ image.status = "loaded"
    /\ pc = "exited"
    /\ exit_code = EXIT_FAILURE

\* C5: a solid_color run whose color fails validation terminates at once with
\* a non-zero status: after the failed validation there is no paint, no commit
\* and no image decode of the color string, and the dispatch loop is never
\* entered.
C5_BadColorAbortsAtOnce ==
    argv.a3 = "solid_color" /\ color_ok = No =>
        /\ load_attempts = <<>>
        /\ paints = 0
        /\ commits = 0
        /\ ~EnteredLoop
        /\ pc \in {"terminate", "terminate_registry", "terminate_exit", "exited"}
        /\ exit_code = EXIT_FAILURE

IsPrefix(a, b) == Len(a) <= Len(b) /\ \A k \in 1..Len(a) : a[k] = b[k]

\* n windows torn down, the list freed, the registry torn down, the exit
TeardownOrder(n) ==
    [k \in 1..(n + 3) |->
        IF k <= n THEN "window_teardown"
        ELSE IF k = n + 1 THEN "list_free"
        ELSE IF k = n + 2 THEN "registry_teardown"
        ELSE "exit"]

\* C6: the process exits with status 0 only after wl_display_dispatch returned
\* -1; on that path and on every sway_terminate path each window in surfaces is
\* torn down exactly once, then the list is freed, then the registry is torn
\* down, and only then the process exits; no window is torn down after the
\* registry.
C6_OrderlyTeardown ==
    /\ IsPrefix(log, TeardownOrder(Len(surfaces.items)))
    /\ exit_code = 0 => pc = "exited" /\ dispatch_result = -1
    /\ pc = "exited" =>
          /\ log = TeardownOrder(Len(surfaces.items))
          /\ Len(surfaces.items) = 1 => window.teardowns = 1
          /\ surfaces.freed
          /\ registry.teardowns = 1

\* a run that painted, served the loop and left with status 0
C6_Witness ==
    /\ pc = "exited"
    /\ exit_code = 0
    /\ Len(surfaces.items) = 1
    /\ window.teardowns = 1
    /\ log = <<"window_teardown", "list_free", "registry_teardown", "exit">>

\* C7 as stated: a run that enters the dispatch loop has painted and committed
\* its window exactly once before, and never paints or commits after.
C7_PaintedExactlyOnce ==
    EnteredLoop => paints = 1 /\ commits = 1

\* C7 as amended: a run that enters the dispatch loop has painted and committed
\* its window at most once before, and never after: exactly once for
\* solid_color, and for an image exactly once if window_prerender returned
\* true and the window has a cairo context, otherwise not at all.
C7_PaintedOnceIfPrerendered ==
    EnteredLoop =>
        /\ paints = commits
        /\ paints = (IF color_ok = Yes \/ prerendered = Yes THEN 1 ELSE 0)
        /\ color_ok = Yes \/ prerendered # None

\* an image was painted and committed once, and the loop has served an event
C7_Witness ==
    /\ pc = "dispatch"
    /\ events > 0
    /\ prerendered = Yes
    /\ paints = 1
    /\ commits = 1

\* C8: in an image run that reaches the dispatch loop the image was loaded
\* exactly once, and once the paint pass is over it is freed, no reference to
\* it remaining, for each of the five scaling modes.
C8_ImageFreedAfterPaint ==
    EnteredLoop /\ scaling_mode # Unset =>
        /\ Len(load_attempts) = 1
        /\ image.refs = 0
        /\ image.status = "freed"

\* C10: the output is read from the registry's list only at an index from 0
\* up to the number of outputs less one, whatever argv[1] parses to.
C10_OutputIndexInRange ==
    pc \notin {"start", "shell", "output", "terminate", "terminate_registry",
               "terminate_exit", "exited"} \/ window # Null
        => InRange(desired_output)
====
